---- MODULE Spec2Model ----
(***************************************************************************)
(* Model of smithay's desktop Space (src/src/desktop/space.rs): the window *)
(* registry, the output membership tracker (refresh), the damage engine    *)
(* and render pass (render_output) and the frame notifier (send_frames).   *)
(*                                                                         *)
(* Rectangles are records [x, y, w, h] in logical coordinates.  The        *)
(* Rectangle helpers (overlaps, contains_rect, merge, intersection) live   *)
(* in utils::geometry, which is not among the sources; they are modelled   *)
(* from the specification's data model (section 3).                        *)
(***************************************************************************)
EXTENDS Integers, Sequences, FiniteSets, TLC

(***************************************************************************)
(* Bounds of the model.                                                    *)
(***************************************************************************)
MaxX == 2      \* window locations have x in 0..MaxX
MaxY == 0      \* window locations have y in 0..MaxY
MaxAge == 1    \* buffer ages passed to render_output are in 0..MaxAge
MaxHist == 2   \* render_output is called while old_damage holds at most MaxHist entries
MaxOps == 4    \* number of Space operations in one behaviour
IdBits == 2    \* width of usize in bits: ids are 0 .. 2^IdBits - 1

Windows == {"w1", "w2", "w3"}
Outputs == {"o1", "o2"}
Layers == {"l1", "l2"}

\* Option<T>: None is the empty sequence, Some(v) a sequence of one element
None == <<>>
Some(v) == <<v>>
IsSome(o) == Len(o) = 1
Get(o) == o[1]

Rect(x, y, w, h) == [x |-> x, y |-> y, w |-> w, h |-> h]
Point(x, y) == [x |-> x, y |-> y]

Max(a, b) == IF a >= b THEN a ELSE b
Min(a, b) == IF a <= b THEN a ELSE b

(***************************************************************************)
(* utils::Rectangle                                                        *)
(***************************************************************************)
\* Rectangle::overlaps: the two rectangles share area
overlaps(a, b) ==
    /\ a.x < b.x + b.w
    /\ b.x < a.x + a.w
    /\ a.y < b.y + b.h
    /\ b.y < a.y + a.h

\* Rectangle::contains (a point): half-open on the far edges
contains(r, p) ==
    /\ p.x >= r.x
    /\ p.x < r.x + r.w
    /\ p.y >= r.y
    /\ p.y < r.y + r.h

\* Rectangle::contains_rect: both corners of o are points of r
contains_rect(r, o) ==
    /\ contains(r, Point(o.x, o.y))
    /\ contains(r, Point(o.x + o.w, o.y + o.h))

\* Rectangle::merge: the smallest rectangle enclosing both
merge(a, b) ==
    LET x1 == Min(a.x, b.x)
        y1 == Min(a.y, b.y)
        x2 == Max(a.x + a.w, b.x + b.w)
        y2 == Max(a.y + a.h, b.y + b.h)
    IN  Rect(x1, y1, x2 - x1, y2 - y1)

(***************************************************************************)
(* The damage reduction of render_output (space.rs:519-538).               *)
(***************************************************************************)
\* Vec::dedup: drops an element equal to its predecessor
dedup(s) ==
    SelectSeq([i \in 1..Len(s) |-> [r |-> s[i], keep |-> (i = 1 \/ s[i] # s[i - 1])]],
              LAMBDA e : e.keep)

Unwrap(s) == [i \in 1..Len(s) |-> s[i].r]

Contains(s, r) == \E i \in 1..Len(s) : s[i] = r

\* damage.retain(|rect| rect.overlaps(output_geo))
retain_overlapping(damage, output_geo) ==
    SelectSeq(damage, LAMBDA r : overlaps(r, output_geo))

\* damage.retain(|rect| rect.size.h > 0 && rect.size.w > 0)
retain_nonempty(damage) ==
    SelectSeq(damage, LAMBDA r : r.h > 0 /\ r.w > 0)

\* for rect in damage.clone(): if damage.contains(rect), drop what rect contains
RECURSIVE remove_contained(_, _, _)
remove_contained(clone, i, damage) ==
    IF i > Len(clone) THEN damage
    ELSE LET rect == clone[i]
             next == IF Contains(damage, rect)
                     THEN SelectSeq(damage, LAMBDA other : ~contains_rect(rect, other))
                     ELSE damage
         IN  remove_contained(clone, i + 1, next)

\* new_damage.iter_mut().find(|other| rect.overlaps(**other)): index of the first hit, 0 if none
find_overlapping(new_damage, rect) ==
    LET hits == {i \in 1..Len(new_damage) : overlaps(rect, new_damage[i])}
    IN  IF hits = {} THEN 0 ELSE CHOOSE i \in hits : \A j \in hits : i <= j

\* one step of the fold: merge rect into the first rectangle it overlaps, else push it
\* variant: the fold never merges, every rectangle is appended
fold_step_no_merge(new_damage, rect) == Append(new_damage, rect)
fold_step(new_damage, rect) ==
    LET i == find_overlapping(new_damage, rect)
    IN  IF i = 0 THEN Append(new_damage, rect)
        ELSE [new_damage EXCEPT ![i] = merge(new_damage[i], rect)]

RECURSIVE merge_fold(_, _, _)
merge_fold(damage, i, new_damage) ==
    IF i > Len(damage) THEN new_damage
    ELSE merge_fold(damage, i + 1, fold_step(new_damage, damage[i]))

reduce_damage(damage, output_geo) ==
    LET d1 == Unwrap(dedup(damage))
        d2 == retain_overlapping(d1, output_geo)
        d3 == retain_nonempty(d2)
        d4 == remove_contained(d3, 1, d3)
    IN  merge_fold(d4, 1, <<>>)

(***************************************************************************)
(* State.  The Space owns `windows` and `outputs`; the side tables hang    *)
(* off the entities (window_state, layer_state, output_state) and hold the *)
(* entry of this one space.  The rest is the state of the collaborators    *)
(* the Space reads: liveness, surface trees, modes, layer maps, damage.    *)
(***************************************************************************)
VARIABLES
    windows,     \* Space.windows: z-order, back to front, no duplicates
    outputs,     \* Space.outputs, in mapping order
    wstate,      \* window -> Option<WindowState{location, drawn}> of this space
    ldrawn,      \* layer -> LayerState.drawn of this space (absent reads as false)
    ostate,      \* output -> Option<OutputState> of this space
    activated,   \* window -> last value given to Window::set_activated
    alive,       \* window -> toplevel (and its surfaces) alive
    tree,        \* window -> what its root surface and its subsurface have committed
    pending,     \* window -> output -> accumulated damage not yet read for that output
    mode,        \* output -> Option<mode size>
    layers,      \* output -> layers of its LayerMap, in map order
    linfo,       \* layer -> [kind, geo, pending] (geometry is relative to its output)
    last,        \* the last operation called and what it did to the collaborators
    notified,    \* what the clients were told: the <<surface, output>> pairs whose last
                 \* notification was an enter
    redraw,      \* the backend event loop of smallvil: where its handler stands, the steps
                 \* of the redraw tick it last ran, the flags it keeps between events
    space_ids,   \* the process-wide id allocator: SPACE_ID, SPACE_IDS and its mutex, and the
                 \* threads that create and drop Spaces
    ops          \* operations performed so far

vars == <<windows, outputs, wstate, ldrawn, ostate, activated, alive, tree, pending,
          mode, layers, linfo, last, notified, redraw, space_ids, ops>>

SeqToSet(s) == {s[i] : i \in 1..Len(s)}
InSeq(s, e) == \E i \in 1..Len(s) : s[i] = e
\* IndexSet::shift_remove / Vec::retain(|x| x != e)
Without(s, e) == SelectSeq(s, LAMBDA x : x # e)

RECURSIVE Flatten(_)
Flatten(ss) == IF ss = <<>> THEN <<>> ELSE Head(ss) \o Flatten(Tail(ss))

Xdg(w) == [kind |-> "Xdg", id |-> w]
LayerId(l) == [kind |-> "Layer", id |-> l]

WindowState(loc, drawn) == [location |-> loc, drawn |-> drawn]
\* `buffers` and `trusted` are not fields of the Space.  `buffers` is what the renderer's
\* buffers of this output hold, the most recently presented frame first; `trusted` says
\* that no pass on this output failed or was given an age that was not the staleness of
\* its buffer
OutputState(loc, scale) ==
    [location |-> loc, render_scale |-> scale, surfaces |-> <<>>,
     last_state |-> <<>>, old_damage |-> <<>>, buffers |-> <<>>, trusted |-> TRUE]

Surface(w, part) == [win |-> w, part |-> part]

(***************************************************************************)
(* Window (desktop::window, not among the sources): bounding box from the  *)
(* surface tree as of the last commit.  The root surface is 1x1 at the     *)
(* window origin, the subsurface 1x1 at offset (1, 0).                     *)
(***************************************************************************)
RootStates == {"nodata", "nobuf", "buf"}
SubOffset == Point(1, 0)
SurfSize == [w |-> 1, h |-> 1]

bbox(t) ==
    CASE t.root = "buf" /\ t.sub -> Rect(0, 0, 2, 1)
      [] t.root = "buf" /\ ~t.sub -> Rect(0, 0, 1, 1)
      [] t.root = "nobuf" /\ t.sub -> Rect(1, 0, 1, 1)
      [] OTHER -> Rect(0, 0, 0, 0)

\* no popups are modelled: bbox_with_popups is the bbox
bbox_with_popups(t) == bbox(t)

Offset(r, p) == Rect(r.x + p.x, r.y + p.y, r.w, r.h)

\* window_loc: the location of the space-scoped state
window_loc(w) == Get(wstate[w]).location
\* window_rect
window_rect(w) == Offset(bbox(tree[w]), window_loc(w))
\* window_rect_with_popups
window_rect_with_popups(w) == Offset(bbox_with_popups(tree[w]), window_loc(w))

\* to_f64().to_logical(scale).to_i32_round() on a non-negative length
to_logical(n, scale) == (2 * n + scale) \div (2 * scale)

\* output_geometry of a mapped output
output_geometry(o) ==
    IF IsSome(mode[o])
    THEN Some(Rect(Get(ostate[o]).location.x, Get(ostate[o]).location.y,
                   to_logical(Get(mode[o]).w, Get(ostate[o]).render_scale),
                   to_logical(Get(mode[o]).h, Get(ostate[o]).render_scale)))
    ELSE None

(***************************************************************************)
(* Inputs.                                                                 *)
(***************************************************************************)
Locations == {Point(x, y) : x \in 0..MaxX, y \in 0..MaxY}
OutputLocations == {Point(0, 0), Point(3, 0)}
Scales == {1}
ModeSizes == {[w |-> 3, h |-> 1]}
TreeStates == [root : RootStates, sub : BOOLEAN]
LayerKinds == {"Background", "Bottom", "Top", "Overlay"}
LayerGeos == {Rect(0, 0, 1, 1), Rect(1, 0, 2, 1)}
\* what a commit may report as damaged: nothing, or the whole bounding box
Damages(box) == {<<>>, <<box>>}

NoCall ==
    [op |-> "none", win |-> "", loc |-> [x |-> 0, y |-> 0], out |-> "", age |-> 0, all |-> FALSE, result |-> "",
     contrib |-> <<>>, new_damage |-> <<>>, composed |-> <<>>, damage |-> <<>>,
     rendered |-> FALSE, cleared |-> FALSE, painted |-> <<>>, failed |-> "none",
     frames |-> <<>>, entered |-> <<>>, left |-> <<>>]

\* usize::MAX
UsizeMax == 2 ^ IdBits - 1
Ids == 0..UsizeMax
Threads == {"t1", "t2", "t3", "t4"}
\* the allocator before any Space was created: SPACE_ID = 0, SPACE_IDS empty, the mutex
\* free; `issued` and `wrapped` are not fields of the program: how often each id was handed
\* out, and whether SPACE_ID has wrapped around
NoIds ==
    [counter |-> 0, ids |-> {}, lock |-> "", poisoned |-> FALSE,
     th |-> [t \in Threads |-> [pc |-> "idle", id |-> 0, space |-> None]],
     issued |-> [i \in Ids |-> 0], wrapped |-> FALSE]

\* the event loop before its first event
Idle == [pc |-> "idle", log |-> <<>>, requested |-> FALSE, screenshot_requested |-> FALSE]
\* the handler has done step `name` of its redraw arm and stands before step `next`
handler_step(r, name, next) == [r EXCEPT !.pc = next, !.log = Append(@, name)]

Tick == ops < MaxOps /\ ops' = ops + 1

(***************************************************************************)
(* Space::new: an empty registry.  The collaborators start in any state    *)
(* they can be in before a window or output is handed to the Space.        *)
(***************************************************************************)
Init ==
    /\ windows = <<>>
    /\ outputs = <<>>
    /\ wstate = [w \in Windows |-> None]
    /\ ldrawn = [l \in Layers |-> FALSE]
    /\ ostate = [o \in Outputs |-> None]
    /\ activated = [w \in Windows |-> FALSE]
    /\ alive = [w \in Windows |-> TRUE]
    /\ tree \in [Windows -> TreeStates]
    /\ pending = [w \in Windows |-> [o \in Outputs |-> <<bbox(tree[w])>>]]
    /\ mode \in [Outputs -> {None} \cup {Some(m) : m \in ModeSizes}]
    /\ layers = [o \in Outputs |-> <<>>]
    /\ linfo = [l \in Layers |-> [kind |-> "Bottom", geo |-> Rect(0, 0, 1, 1), pending |-> <<>>]]
    /\ last = NoCall
    /\ notified = {}
    /\ redraw = Idle
    /\ space_ids = NoIds
    /\ ops = 0

(***************************************************************************)
(* Space registry (space.rs:114-228).                                      *)
(***************************************************************************)
\* IndexSet::insert: a new element goes last, a present one keeps its place
indexset_insert(ws, w) == IF InSeq(ws, w) THEN ws ELSE Append(ws, w)

\* insert_window: what `windows` becomes
insert_window(ws, w) == indexset_insert(ws, w)

\* insert_window: set_activated(true) on w, set_activated(false) on the others of ws
set_activated(act, ws, w) ==
    [v \in Windows |-> IF v = w THEN TRUE
                       ELSE IF InSeq(ws, v) THEN FALSE ELSE act[v]]

\* window_state(id, w): the entry, created with WindowState::default() if missing
window_state(w) == IF IsSome(wstate[w]) THEN Get(wstate[w]) ELSE WindowState(Point(0, 0), FALSE)

map_window(w, loc) ==
    /\ Tick
    /\ windows' = insert_window(windows, w)
    /\ activated' = set_activated(activated, windows', w)
    /\ wstate' = [wstate EXCEPT ![w] = Some([window_state(w) EXCEPT !.location = loc])]
    /\ last' = [NoCall EXCEPT !.op = "map_window", !.win = w, !.loc = loc]
    /\ UNCHANGED <<space_ids, redraw, notified, outputs, ldrawn, ostate, alive, tree, pending, mode, layers, linfo>>

\* variant: the window is inserted without being removed first
raise_window_no_remove(w) ==
    /\ Tick
    /\ IF InSeq(windows, w)
       THEN /\ windows' = insert_window(windows, w)
            /\ activated' = set_activated(activated, windows', w)
       ELSE UNCHANGED <<windows, activated>>
    /\ last' = [NoCall EXCEPT !.op = "raise_window", !.win = w]
    /\ UNCHANGED <<space_ids, redraw, notified, outputs, wstate, ldrawn, ostate, alive, tree, pending, mode, layers, linfo>>

raise_window(w) ==
    /\ Tick
    /\ IF InSeq(windows, w)
       THEN /\ windows' = insert_window(Without(windows, w), w)
            /\ activated' = set_activated(activated, windows', w)
       ELSE UNCHANGED <<windows, activated>>
    /\ last' = [NoCall EXCEPT !.op = "raise_window", !.win = w]
    /\ UNCHANGED <<space_ids, redraw, notified, outputs, wstate, ldrawn, ostate, alive, tree, pending, mode, layers, linfo>>

\* variant: the state is removed but the window stays in the ordered set
unmap_window_state_only(w) ==
    /\ Tick
    /\ wstate' = [wstate EXCEPT ![w] = None]
    /\ windows' = windows
    /\ last' = [NoCall EXCEPT !.op = "unmap_window", !.win = w,
                              !.result = IF InSeq(windows, w) THEN "removed" ELSE "absent"]
    /\ UNCHANGED <<space_ids, redraw, notified, outputs, ldrawn, ostate, activated, alive, tree, pending, mode, layers, linfo>>

unmap_window(w) ==
    /\ Tick
    /\ wstate' = [wstate EXCEPT ![w] = None]
    /\ windows' = Without(windows, w)
    /\ last' = [NoCall EXCEPT !.op = "unmap_window", !.win = w,
                              !.result = IF InSeq(windows, w) THEN "removed" ELSE "absent"]
    /\ UNCHANGED <<space_ids, redraw, notified, outputs, ldrawn, ostate, activated, alive, tree, pending, mode, layers, linfo>>

map_output(o, scale, loc) ==
    /\ Tick
    /\ ostate' = [ostate EXCEPT ![o] = Some(OutputState(loc, scale))]
    /\ outputs' = IF InSeq(outputs, o) THEN outputs ELSE Append(outputs, o)
    /\ last' = [NoCall EXCEPT !.op = "map_output", !.out = o]
    /\ UNCHANGED <<space_ids, redraw, notified, windows, wstate, ldrawn, activated, alive, tree, pending, mode, layers, linfo>>

unmap_output(o) ==
    /\ Tick
    /\ ostate' = [ostate EXCEPT ![o] = None]
    /\ outputs' = Without(outputs, o)
    /\ last' = [NoCall EXCEPT !.op = "unmap_output", !.out = o]
    /\ UNCHANGED <<space_ids, redraw, notified, windows, wstate, ldrawn, activated, alive, tree, pending, mode, layers, linfo>>

(***************************************************************************)
(* Queries (space.rs:149-205).  They read the state and change nothing.    *)
(***************************************************************************)
\* Window::geometry (desktop::window, not among the sources): no xdg window geometry is
\* set, so it is the bounding box
geometry(t) == bbox(t)

\* window_geo: the geometry with its location replaced by the window's location
window_geo(w) ==
    LET wgeo == geometry(tree[w])
    IN  Rect(window_loc(w).x, window_loc(w).y, wgeo.w, wgeo.h)

\* the points a caller asks about
Points == {Point(x, y) : x \in 0..(MaxX + 2), y \in 0..(MaxY + 1)}

\* window_under: the topmost window whose bounding box holds the point
window_under(point) ==
    LET hits == SelectSeq(windows, LAMBDA w : contains(window_rect(w), point))
    IN  IF hits = <<>> THEN None ELSE Some(hits[Len(hits)])

window_geometry(w) == IF ~InSeq(windows, w) THEN None ELSE Some(window_geo(w))

window_bbox(w) == IF ~InSeq(windows, w) THEN None ELSE Some(window_rect(w))

\* the closure `overlap` of outputs_for_window: width times height of the intersection
overlap(rect1, rect2) ==
    Max(0, Min(rect1.x + rect1.w, rect2.x + rect2.w) - Max(rect1.x, rect2.x))
    * Max(0, Min(rect1.y + rect1.h, rect2.y + rect2.h) - Max(rect1.y, rect2.y))

\* the area outputs.sort_by compares: of an output that passed the filter
overlap_area(o, w_geo) == overlap(Get(output_geometry(o)), w_geo)

\* slice::sort_by is stable: an element goes behind those that do not compare greater
sort_insert(sorted, o, w_geo) ==
    LET before == {i \in 1..Len(sorted) : overlap_area(sorted[i], w_geo) <= overlap_area(o, w_geo)}
        n == IF before = {} THEN 0 ELSE CHOOSE i \in before : \A j \in before : j <= i
    IN  SubSeq(sorted, 1, n) \o <<o>> \o SubSeq(sorted, n + 1, Len(sorted))

RECURSIVE sort_by_overlap(_, _, _, _)
sort_by_overlap(os, i, sorted, w_geo) ==
    IF i > Len(os) THEN sorted
    ELSE sort_by_overlap(os, i + 1, sort_insert(sorted, os[i], w_geo), w_geo)

\* outputs_for_window: self.output_geometry(o).unwrap() in the filter panics on a mapped
\* output that has no current mode
outputs_for_window(w) ==
    IF ~InSeq(windows, w) THEN [panic |-> FALSE, outputs |-> <<>>]
    ELSE IF \E o \in SeqToSet(outputs) : ~IsSome(output_geometry(o))
    THEN [panic |-> TRUE, outputs |-> <<>>]
    ELSE LET w_geo == window_rect(w)
             kept == SelectSeq(outputs, LAMBDA o : overlaps(w_geo, Get(output_geometry(o))))
         IN  [panic |-> FALSE, outputs |-> sort_by_overlap(kept, 1, <<>>, w_geo)]

(***************************************************************************)
(* The collaborators: clients, the backend's output, the layer maps.       *)
(***************************************************************************)
\* a client commits its surface tree; Space::commit refreshes the window's bounding box.
\* The rendering state of a surface is attached at its first commit and stays
commit(w, t, full) ==
    /\ Tick
    /\ alive[w]
    /\ t.root = "nodata" => tree[w].root = "nodata"
    /\ tree' = [tree EXCEPT ![w] = t]
    /\ pending' = [pending EXCEPT ![w] =
                     [o \in Outputs |-> IF full THEN <<bbox(t)>> ELSE <<>>]]
    /\ last' = [NoCall EXCEPT !.op = "commit", !.win = w]
    /\ UNCHANGED <<space_ids, redraw, notified, windows, outputs, wstate, ldrawn, ostate, activated, alive, mode, layers, linfo>>

\* a client destroys its toplevel and surfaces
destroy(w) ==
    /\ Tick
    /\ alive[w]
    /\ alive' = [alive EXCEPT ![w] = FALSE]
    /\ last' = [NoCall EXCEPT !.op = "destroy", !.win = w]
    /\ UNCHANGED <<space_ids, redraw, notified, windows, outputs, wstate, ldrawn, ostate, activated, tree, pending, mode, layers, linfo>>

\* Output::change_current_state / delete_mode
set_mode(o, m) ==
    /\ Tick
    /\ mode[o] # m
    /\ mode' = [mode EXCEPT ![o] = m]
    /\ last' = [NoCall EXCEPT !.op = "set_mode", !.out = o]
    /\ UNCHANGED <<space_ids, redraw, notified, windows, outputs, wstate, ldrawn, ostate, activated, alive, tree, pending, layers, linfo>>

\* LayerMap::map_layer: a layer enters the map of one output, damaged as a whole
map_layer(l, o, kind, geo) ==
    /\ Tick
    /\ \A p \in Outputs : ~InSeq(layers[p], l)
    /\ layers' = [layers EXCEPT ![o] = Append(@, l)]
    /\ linfo' = [linfo EXCEPT ![l] = [kind |-> kind, geo |-> geo,
                                      pending |-> <<Rect(0, 0, geo.w, geo.h)>>]]
    /\ last' = [NoCall EXCEPT !.op = "map_layer", !.out = o]
    /\ UNCHANGED <<space_ids, redraw, notified, windows, outputs, wstate, ldrawn, ostate, activated, alive, tree, pending, mode>>

\* LayerMap::arrange: the layer gets another geometry and is damaged as a whole
arrange_layer(l, o, geo) ==
    /\ Tick
    /\ InSeq(layers[o], l)
    /\ linfo[l].geo # geo
    /\ linfo' = [linfo EXCEPT ![l] = [@ EXCEPT !.geo = geo,
                                               !.pending = <<Rect(0, 0, geo.w, geo.h)>>]]
    /\ last' = [NoCall EXCEPT !.op = "arrange_layer", !.out = o]
    /\ UNCHANGED <<space_ids, redraw, notified, windows, outputs, wstate, ldrawn, ostate, activated, alive, tree, pending,
                   mode, layers>>

\* LayerMap::unmap_layer
unmap_layer(l, o) ==
    /\ Tick
    /\ InSeq(layers[o], l)
    /\ layers' = [layers EXCEPT ![o] = Without(@, l)]
    /\ last' = [NoCall EXCEPT !.op = "unmap_layer", !.out = o]
    /\ UNCHANGED <<space_ids, redraw, notified, windows, outputs, wstate, ldrawn, ostate, activated, alive, tree, pending, mode, linfo>>

(***************************************************************************)
(* Membership tracker: Space::refresh (space.rs:282-400).                  *)
(***************************************************************************)
ZeroRect == Rect(0, 0, 0, 0)

\* self.output_geometry(output).unwrap_or_else(|| Rectangle::from_loc_and_size((0, 0), (0, 0)))
output_geometry_or_zero(o) ==
    IF IsSome(output_geometry(o)) THEN Get(output_geometry(o)) ELSE ZeroRect

\* with_surface_tree_downward: the location the walk yields for a surface of window w
surface_location(w, part) ==
    IF part = "sub"
    THEN Point(window_loc(w).x + SubOffset.x, window_loc(w).y + SubOffset.y)
    ELSE window_loc(w)

\* SurfaceState::size(): the size of the committed buffer, if any
surface_size(t, part) ==
    IF (part = "root" /\ t.root = "buf") \/ (part = "sub" /\ t.sub)
    THEN Some(SurfSize) ELSE None

\* the surfaces the first walk visits: every surface of the tree
all_surfaces(t) == <<"root", "sub">>
\* the surfaces the second walk visits: children of a surface without state are skipped
visible_surfaces(t) == IF t.root = "nodata" THEN <<"root">> ELSE <<"root", "sub">>

\* variant: the leave is sent but the surface stays in the set
leave_surface_keeps(acc, s, o) ==
    IF InSeq(acc.surfaces, s)
    THEN [acc EXCEPT !.left = Append(@, [surface |-> s, output |-> o])]
    ELSE acc
\* output.leave(s) and removal from the set, if s is in the set
leave_surface(acc, s, o) ==
    IF InSeq(acc.surfaces, s)
    THEN [acc EXCEPT !.surfaces = Without(@, s),
                     !.left = Append(@, [surface |-> s, output |-> o])]
    ELSE acc

\* variant: the enter is sent whether or not s is in the set
enter_surface_always(acc, s, o) ==
    [acc EXCEPT !.surfaces = IF InSeq(@, s) THEN @ ELSE Append(@, s),
                !.entered = Append(@, [surface |-> s, output |-> o])]
\* output.enter(s) and insertion in the set, if s is not in the set
enter_surface(acc, s, o) ==
    IF ~InSeq(acc.surfaces, s)
    THEN [acc EXCEPT !.surfaces = Append(@, s),
                     !.entered = Append(@, [surface |-> s, output |-> o])]
    ELSE acc

\* the processor closure of the second walk, on one surface
refresh_surface(acc, w, part, o) ==
    LET size == surface_size(tree[w], part)
        loc == surface_location(w, part)
        geo == output_geometry_or_zero(o)
    IN  IF IsSome(size)
        THEN IF overlaps(geo, Rect(loc.x, loc.y, Get(size).w, Get(size).h))
             THEN enter_surface(acc, Surface(w, part), o)
             ELSE leave_surface(acc, Surface(w, part), o)
        ELSE leave_surface(acc, Surface(w, part), o)

RECURSIVE leave_all(_, _, _, _, _)
leave_all(acc, w, parts, i, o) ==
    IF i > Len(parts) THEN acc
    ELSE leave_all(leave_surface(acc, Surface(w, parts[i]), o), w, parts, i + 1, o)

RECURSIVE refresh_walk(_, _, _, _, _)
refresh_walk(acc, w, parts, i, o) ==
    IF i > Len(parts) THEN acc
    ELSE refresh_walk(refresh_surface(acc, w, parts[i], o), w, parts, i + 1, o)

\* the body of `for output in &self.outputs` for one window
refresh_window(acc, w, o) ==
    IF ~overlaps(output_geometry_or_zero(o), window_rect(w))
    THEN leave_all(acc, w, all_surfaces(tree[w]), 1, o)
    ELSE refresh_walk(acc, w, visible_surfaces(tree[w]), 1, o)

RECURSIVE refresh_output(_, _, _, _)
refresh_output(acc, ws, i, o) ==
    IF i > Len(ws) THEN acc
    ELSE refresh_output(refresh_window(acc, ws[i], o), ws, i + 1, o)

\* self.windows.retain(|w| w.toplevel().alive())
retain_alive(ws) == SelectSeq(ws, LAMBDA w : alive[w])

\* what refresh makes of one mapped output: its surfaces set, and the events it sends
refreshed(o) ==
    LET kept == SelectSeq(Get(ostate[o]).surfaces, LAMBDA s : alive[s.win])
    IN  refresh_output([surfaces |-> kept, entered |-> <<>>, left |-> <<>>],
                       retain_alive(windows), 1, o)

refresh ==
    /\ Tick
    /\ windows' = retain_alive(windows)
    /\ ostate' = [o \in Outputs |->
                    IF InSeq(outputs, o)
                    THEN Some([Get(ostate[o]) EXCEPT !.surfaces = refreshed(o).surfaces])
                    ELSE ostate[o]]
    /\ last' = [NoCall EXCEPT
                  !.op = "refresh",
                  !.entered = Flatten([i \in 1..Len(outputs) |-> refreshed(outputs[i]).entered]),
                  !.left = Flatten([i \in 1..Len(outputs) |-> refreshed(outputs[i]).left])]
    /\ notified' = (notified \ {<<last'.left[i].surface, last'.left[i].output>> :
                                    i \in 1..Len(last'.left)})
                    \cup {<<last'.entered[i].surface, last'.entered[i].output>> :
                             i \in 1..Len(last'.entered)}
    /\ redraw' = IF redraw.pc = "refresh"
                 THEN handler_step(redraw, "refresh", "cleanup") ELSE redraw
    /\ UNCHANGED <<space_ids, outputs, wstate, ldrawn, activated, alive, tree, pending, mode, layers, linfo>>

(***************************************************************************)
(* Damage engine and render pass: Space::render_output (space.rs:417-680). *)
(***************************************************************************)
\* state.last_state.get(id).cloned()
last_state_get(ls, id) ==
    LET hits == {i \in 1..Len(ls) : ls[i].id = id}
    IN  IF hits = {} THEN None ELSE Some(ls[CHOOSE i \in hits : TRUE].geo)

\* ids of the toplevels the Space and the output's layer map hold now
current_ids(o) ==
    {Xdg(windows[i]) : i \in 1..Len(windows)} \cup {LayerId(layers[o][i]) : i \in 1..Len(layers[o])}

\* space.rs:442-458: the last rectangle of every toplevel that is gone
gone_damage(o) ==
    LET ls == Get(ostate[o]).last_state
        gone == SelectSeq(ls, LAMBDA e : e.id \notin current_ids(o))
    IN  [i \in 1..Len(gone) |-> gone[i].geo]

\* old_geo.map(|old_geo| old_geo != geo).unwrap_or(false)
\* variant: every toplevel with a last_state entry counts as moved
moved_or_resized_always(old_geo, geo) == IsSome(old_geo)
moved_or_resized(old_geo, geo) == IsSome(old_geo) /\ Get(old_geo) # geo

OffsetAll(rects, p) == [i \in 1..Len(rects) |-> Offset(rects[i], p)]

\* space.rs:461-483: what one window adds to the damage of this frame
window_damage(w, o) ==
    LET geo == window_rect_with_popups(w)
        old_geo == last_state_get(Get(ostate[o]).last_state, Xdg(w))
    IN  IF moved_or_resized(old_geo, geo)
        THEN <<Get(old_geo), geo>>
        ELSE OffsetAll(pending[w][o], window_loc(w))

\* space.rs:484-505: what one layer adds to the damage of this frame
layer_damage(l, o) ==
    LET geo == linfo[l].geo
        old_geo == last_state_get(Get(ostate[o]).last_state, LayerId(l))
    IN  IF moved_or_resized(old_geo, geo)
        THEN <<Get(old_geo), geo>>
        ELSE OffsetAll(linfo[l].pending, Point(geo.x, geo.y))

\* per toplevel, in iteration order (windows, then layers), its share of the new damage
contributions(o) ==
    [i \in 1..Len(windows) |-> [id |-> Xdg(windows[i]), rects |-> window_damage(windows[i], o)]]
    \o [i \in 1..Len(layers[o]) |->
          [id |-> LayerId(layers[o][i]), rects |-> layer_damage(layers[o][i], o)]]

\* space.rs:508: new_damage
new_damage(o) ==
    LET c == contributions(o)
    IN  gone_damage(o) \o Flatten([i \in 1..Len(c) |-> c[i].rects])

\* age > 0 && state.old_damage.len() >= age
\* variant: an age of 1 is treated like an age of 0
history_usable_from_two(old_damage, age) == age > 1 /\ Len(old_damage) >= age
history_usable(old_damage, age) == age > 0 /\ Len(old_damage) >= age

\* variant: the history is dropped
truncated_to_nothing(old_damage, age) == <<>>
\* variant: the history is never cut
truncated_never(old_damage, age) == old_damage
\* state.old_damage.truncate(age), done only on the branch that uses the history
truncated(old_damage, age) ==
    IF history_usable(old_damage, age) THEN SubSeq(old_damage, 1, age) ELSE old_damage

\* space.rs:510-517: the damage before reduction
\* variant: without a usable history only the new damage is composed
composed_damage_new_only(o, age, output_geo) ==
    LET old_damage == Get(ostate[o]).old_damage
    IN  IF history_usable(old_damage, age)
        THEN new_damage(o) \o Flatten(truncated(old_damage, age))
        ELSE new_damage(o)
composed_damage(o, age, output_geo) ==
    LET old_damage == Get(ostate[o]).old_damage
    IN  IF history_usable(old_damage, age)
        THEN new_damage(o) \o Flatten(truncated(old_damage, age))
        ELSE <<output_geo>>

\* accumulated_damage is read, and so consumed, for the toplevels that did not move
consumed_windows(o) ==
    {w \in SeqToSet(windows) :
        ~moved_or_resized(last_state_get(Get(ostate[o]).last_state, Xdg(w)),
                          window_rect_with_popups(w))}
consumed_layers(o) ==
    {l \in SeqToSet(layers[o]) :
        ~moved_or_resized(last_state_get(Get(ostate[o]).last_state, LayerId(l)), linfo[l].geo)}

\* layer_map.layers_on(kind)
layers_on(o, kind) == SelectSeq(layers[o], LAMBDA l : linfo[l].kind = kind)

\* the rectangle the render pass tests a toplevel with
paint_rect(id) == IF id.kind = "Xdg" THEN window_rect_with_popups(id.id) ELSE linfo[id.id].geo

\* damage.iter().any(|geo| rect.overlaps(*geo))
is_damaged(rect, damage) == \E i \in 1..Len(damage) : overlaps(rect, damage[i])

\* variant: the windows are painted before the lower layers
paint_order_windows_first(o) ==
    LET lower == layers_on(o, "Background") \o layers_on(o, "Bottom")
        upper == layers_on(o, "Top") \o layers_on(o, "Overlay")
    IN  [i \in 1..Len(windows) |-> Xdg(windows[i])]
        \o [i \in 1..Len(lower) |-> LayerId(lower[i])]
        \o [i \in 1..Len(upper) |-> LayerId(upper[i])]
\* space.rs:565-652: the toplevels in paint order
paint_order(o) ==
    LET lower == layers_on(o, "Background") \o layers_on(o, "Bottom")
        upper == layers_on(o, "Top") \o layers_on(o, "Overlay")
    IN  [i \in 1..Len(lower) |-> LayerId(lower[i])]
        \o [i \in 1..Len(windows) |-> Xdg(windows[i])]
        \o [i \in 1..Len(upper) |-> LayerId(upper[i])]

\* the draw calls of a pass that meets no failure
paint_calls(o, damage) ==
    SelectSeq(paint_order(o), LAMBDA id : is_damaged(paint_rect(id), damage))

(***************************************************************************)
(* What is on screen.  A pixel of a buffer shows the topmost toplevel that *)
(* was painted there, the clear colour, or something unknown.              *)
(***************************************************************************)
ClearColor == [kind |-> "Clear", id |-> ""]
Unknown == [kind |-> "Unknown", id |-> ""]

\* the pixels of a mapped output that has a mode
Pixels(o) ==
    LET g == Get(output_geometry(o))
    IN  {Point(x, y) : x \in g.x..(g.x + g.w - 1), y \in g.y..(g.y + g.h - 1)}

\* what a complete repaint shows at pixel p: the last toplevel in paint order that covers it
scene_at(o, p) ==
    LET hits == SelectSeq(paint_order(o), LAMBDA id : contains(paint_rect(id), p))
    IN  IF hits = <<>> THEN ClearColor ELSE hits[Len(hits)]
scene(o) == [p \in Pixels(o) |-> scene_at(o, p)]

in_damage(damage, p) == \E i \in 1..Len(damage) : contains(damage[i], p)

\* the buffer a pass with this age paints on: the frame presented `age` frames ago
base_buffer(o, age) ==
    LET buffers == Get(ostate[o]).buffers
    IN  IF age >= 1 /\ age <= Len(buffers) THEN buffers[age]
        ELSE [p \in Pixels(o) |-> Unknown]

\* the buffer after a pass without failure: cleared and repainted inside the damage only
presented(o, age, damage) ==
    LET base == base_buffer(o, age)
    IN  [p \in Pixels(o) |-> IF in_damage(damage, p) THEN scene_at(o, p) ELSE base[p]]

\* the frames the buffers hold after a pass
buffers_after(o, age, damage) ==
    LET buffers == Get(ostate[o]).buffers
    IN  <<presented(o, age, damage)>> \o SubSeq(buffers, 1, Min(Len(buffers), MaxAge - 1))

\* the age is 0, or the staleness of a buffer whose content is known
true_age(o, age) == age = 0 \/ age <= Len(Get(ostate[o]).buffers)

(***************************************************************************)
(* The renderer.  Renderer::render(size, transform, closure) hands back    *)
(* the closure's value inside its own Result: the value render_output      *)
(* tests is Result<Result<(), R::Error>, R::Error>.  A failure is one of:  *)
(* "begin" (render fails before it calls the closure), "clear", "paint" of *)
(* the k-th draw call (the closure returns early through `?`), "finish"    *)
(* (render fails after the closure returned Ok).                           *)
(***************************************************************************)
NoFailure == [at |-> "none", k |-> 0]
Failures(n) ==
    {[at |-> a, k |-> 0] : a \in {"none", "begin", "clear", "finish"}}
    \cup {[at |-> "paint", k |-> k] : k \in 1..n}

\* the Result of renderer.render: outer Err only when render itself failed
render_outer_err(fail) == fail.at \in {"begin", "finish"}
\* the closure's own Result, carried inside Ok(..)
render_inner_err(fail) == fail.at \in {"clear", "paint"}

\* space.rs:545-656, `if let Err(err) = renderer.render(..)`: the errors the test sees
render_failed(fail) == render_outer_err(fail)

\* the draw calls that completed: all of them unless the closure stopped early
painted(calls, fail) ==
    CASE fail.at \in {"begin", "clear"} -> <<>>
      [] fail.at = "paint" -> SubSeq(calls, 1, fail.k - 1)
      [] OTHER -> calls

\* window_state(..).drawn = true / layer_state(..).drawn = true after a completed draw call
mark_drawn_windows(ws, done) ==
    [w \in Windows |-> IF Xdg(w) \in SeqToSet(done)
                       THEN Some([window_state(w) EXCEPT !.drawn = TRUE])
                       ELSE ws[w]]
mark_drawn_layers(ld, done) ==
    [l \in Layers |-> IF LayerId(l) \in SeqToSet(done) THEN TRUE ELSE ld[l]]

\* space.rs:665-676: the state captured after a pass
captured_state(o) ==
    [i \in 1..Len(windows) |->
        [id |-> Xdg(windows[i]), geo |-> window_rect_with_popups(windows[i])]]
    \o [i \in 1..Len(layers[o]) |->
        [id |-> LayerId(layers[o][i]), geo |-> linfo[layers[o][i]].geo]]

\* variant: the early return wipes last_state and the damage history
render_no_mode_resets(o, age) ==
    /\ last' = [NoCall EXCEPT !.op = "render_output", !.out = o, !.age = age,
                              !.result = "Err(OutputNoMode)"]
    /\ ostate' = [ostate EXCEPT ![o] = Some([Get(@) EXCEPT !.old_damage = <<>>,
                                                          !.last_state = <<>>])]
    /\ UNCHANGED <<wstate, ldrawn, pending, linfo>>
\* space.rs:429-431: current_mode().ok_or(RenderError::OutputNoMode)? returns at once
render_no_mode(o, age) ==
    /\ last' = [NoCall EXCEPT !.op = "render_output", !.out = o, !.age = age,
                              !.result = "Err(OutputNoMode)"]
    /\ UNCHANGED <<wstate, ldrawn, ostate, pending, linfo>>

render_output(o, age) ==
    /\ Tick
    /\ InSeq(outputs, o)
    /\ Len(Get(ostate[o]).old_damage) <= MaxHist
    /\ UNCHANGED <<space_ids, redraw, notified, windows, outputs, activated, alive, tree, mode, layers>>
    /\ IF ~IsSome(mode[o])
       THEN render_no_mode(o, age)
       ELSE LET st == Get(ostate[o])
                output_geo == Get(output_geometry(o))
                fresh == new_damage(o)
                composed == composed_damage(o, age, output_geo)
                damage == reduce_damage(composed, output_geo)
                calls == paint_calls(o, damage)
                call == [NoCall EXCEPT !.op = "render_output", !.out = o, !.age = age,
                                       !.contrib = contributions(o),
                                       !.new_damage = fresh,
                                       !.composed = composed, !.damage = damage]
            IN  /\ pending' = [w \in Windows |->
                                 IF w \in consumed_windows(o)
                                 THEN [pending[w] EXCEPT ![o] = <<>>] ELSE pending[w]]
                /\ linfo' = [l \in Layers |->
                               IF l \in consumed_layers(o)
                               THEN [linfo[l] EXCEPT !.pending = <<>>] ELSE linfo[l]]
                /\ IF damage = <<>>
                   THEN /\ ostate' = [ostate EXCEPT ![o] =
                                        Some([st EXCEPT !.old_damage = truncated(@, age),
                                                        !.trusted = @ /\ true_age(o, age)])]
                        /\ last' = [call EXCEPT !.result = "Ok(false)"]
                        /\ UNCHANGED <<wstate, ldrawn>>
                   ELSE \E fail \in Failures(Len(calls)) :
                        LET done == painted(calls, fail)
                        IN  /\ wstate' = mark_drawn_windows(wstate, done)
                            /\ ldrawn' = mark_drawn_layers(ldrawn, done)
                            /\ ostate' = [ostate EXCEPT ![o] =
                                            IF render_failed(fail)
                                            THEN Some([st EXCEPT !.old_damage = <<>>,
                                                                 !.last_state = <<>>,
                                                                 !.trusted = FALSE])
                                            ELSE Some([st EXCEPT
                                                   !.last_state = captured_state(o),
                                                   !.old_damage =
                                                       <<fresh>> \o truncated(@, age),
                                                   !.buffers = buffers_after(o, age, damage),
                                                   !.trusted =
                                                       @ /\ fail.at = "none" /\ true_age(o, age)])]
                            /\ last' = [call EXCEPT
                                          !.result = IF render_failed(fail)
                                                     THEN "Err(Rendering)" ELSE "Ok(true)",
                                          !.rendered = TRUE,
                                          !.cleared = (fail.at # "begin"),
                                          !.painted = done,
                                          !.failed = fail.at]

(***************************************************************************)
(* Frame notifier: Space::send_frames (space.rs:682-704).                  *)
(***************************************************************************)
\* the filter closure on a window: all || mem::replace(&mut state.drawn, false)
window_wants_frame(w, all) == all \/ window_state(w).drawn
layer_wants_frame(l, all) == all \/ ldrawn[l]

\* the layers of the mapped outputs, output by output
mapped_layers == Flatten([i \in 1..Len(outputs) |-> layers[outputs[i]]])

\* the flag is replaced by false only when the closure gets past `all ||`
\* variant: the drawn flag is never replaced
reset_window_never(st, all) == st
reset_window(st, all) == IF all THEN st ELSE [st EXCEPT !.drawn = FALSE]
reset_layer(d, all) == IF all THEN d ELSE FALSE

send_frames(all) ==
    /\ Tick
    /\ last' = [NoCall EXCEPT
                  !.op = "send_frames", !.all = all,
                  !.frames =
                      LET ws == SelectSeq(windows, LAMBDA w : window_wants_frame(w, all))
                          ls == SelectSeq(mapped_layers, LAMBDA l : layer_wants_frame(l, all))
                      IN  [i \in 1..Len(ws) |-> Xdg(ws[i])] \o [i \in 1..Len(ls) |-> LayerId(ls[i])]]
    /\ wstate' = [w \in Windows |->
                    IF InSeq(windows, w) THEN Some(reset_window(window_state(w), all))
                    ELSE wstate[w]]
    /\ ldrawn' = [l \in Layers |->
                    IF InSeq(mapped_layers, l) THEN reset_layer(ldrawn[l], all) ELSE ldrawn[l]]
    /\ UNCHANGED <<space_ids, redraw, notified, windows, outputs, ostate, activated, alive, tree, pending, mode, layers, linfo>>

(***************************************************************************)
(* Specifications.  Each is the Space driven through at most MaxOps        *)
(* operations; they differ in the state the run starts from and in the     *)
(* entities the operations are called with.                                *)
(***************************************************************************)
Ages == 0..MaxAge
Modes == {None} \cup {Some(s) : s \in ModeSizes}
Wide == [root |-> "buf", sub |-> TRUE]
Narrow == [root |-> "buf", sub |-> FALSE]
NoState == [root |-> "nodata", sub |-> FALSE]

\* Render cycle on output o1.  The run starts from the Space after map_output(o1, 1, (0, 0)),
\* or after that and map_window(w1, (0, 0)), map_window(w2, (1, 0)); nothing is painted yet.
RenderWindows == {"w1", "w2", "w3"}
RenderTrees == {Wide, Narrow}
RenderLayers == {"l1"}

InitRender ==
    /\ windows \in {<<>>, <<"w1", "w2">>}
    /\ outputs = <<"o1">>
    /\ wstate = [w \in Windows |->
                   IF InSeq(windows, w)
                   THEN Some(WindowState(Point(IF w = "w1" THEN 0 ELSE 1, 0), FALSE))
                   ELSE None]
    /\ ldrawn = [l \in Layers |-> FALSE]
    /\ ostate = [o \in Outputs |-> IF o = "o1" THEN Some(OutputState(Point(0, 0), 1)) ELSE None]
    /\ activated = [w \in Windows |-> w = "w2" /\ InSeq(windows, w)]
    /\ alive = [w \in Windows |-> TRUE]
    /\ tree = [w \in Windows |-> Wide]
    /\ pending = [w \in Windows |-> [o \in Outputs |-> <<bbox(tree[w])>>]]
    /\ mode = [o \in Outputs |-> IF o = "o1" THEN Some([w |-> 3, h |-> 1]) ELSE None]
    /\ layers = [o \in Outputs |-> <<>>]
    /\ linfo = [l \in Layers |-> [kind |-> "Bottom", geo |-> Rect(0, 0, 1, 1), pending |-> <<>>]]
    /\ last = NoCall
    /\ notified = {}
    /\ redraw = Idle
    /\ space_ids = NoIds
    /\ ops = 0

NextRender ==
    \/ \E w \in RenderWindows, loc \in Locations : map_window(w, loc)
    \/ \E w \in RenderWindows : unmap_window(w)
    \/ \E w \in RenderWindows, t \in RenderTrees, full \in BOOLEAN : commit(w, t, full)
    \/ \E l \in RenderLayers, k \in LayerKinds : map_layer(l, "o1", k, Rect(0, 0, 1, 1))
    \/ \E l \in RenderLayers, g \in LayerGeos : arrange_layer(l, "o1", g)
    \/ \E l \in RenderLayers : unmap_layer(l, "o1")
    \/ \E m \in Modes : set_mode("o1", m)
    \/ \E age \in Ages : render_output("o1", age)
    \/ \E all \in BOOLEAN : send_frames(all)

SpecRender == InitRender /\ [][NextRender]_vars

\* Registry: a new Space and the window operations on three windows, whose toplevels can
\* die; refresh prunes the dead ones.
InitRegistry ==
    /\ windows = <<>>
    /\ outputs = <<>>
    /\ wstate = [w \in Windows |-> None]
    /\ ldrawn = [l \in Layers |-> FALSE]
    /\ ostate = [o \in Outputs |-> None]
    /\ activated \in [Windows -> BOOLEAN]
    /\ alive = [w \in Windows |-> TRUE]
    /\ tree = [w \in Windows |-> Wide]
    /\ pending = [w \in Windows |-> [o \in Outputs |-> <<bbox(tree[w])>>]]
    /\ mode = [o \in Outputs |-> Some([w |-> 3, h |-> 1])]
    /\ layers = [o \in Outputs |-> <<>>]
    /\ linfo = [l \in Layers |-> [kind |-> "Bottom", geo |-> Rect(0, 0, 1, 1), pending |-> <<>>]]
    /\ last = NoCall
    /\ notified = {}
    /\ redraw = Idle
    /\ space_ids = NoIds
    /\ ops = 0

NextRegistry ==
    \/ \E w \in Windows, loc \in Locations : map_window(w, loc)
    \/ \E w \in Windows : raise_window(w)
    \/ \E w \in Windows : unmap_window(w)
    \/ \E w \in Windows : destroy(w)
    \/ refresh
    \/ \E all \in BOOLEAN : send_frames(all)

SpecRegistry == InitRegistry /\ [][NextRegistry]_vars

\* Membership: windows w1, w2 and both outputs.  The run starts from a new Space, from the
\* Space after map_output(o1, 1, l1) and map_output(o2, 1, l2), or from either after
\* map_window(w1, (2, 0)) and map_window(w2, (2, 0)).
\* The surfaces of a window that is not mapped yet have committed nothing.
MemberWindows == {"w1", "w2"}

InitMember ==
    /\ windows \in {<<>>, <<"w1", "w2">>}
    /\ outputs \in {<<>>, <<"o1", "o2">>}
    /\ wstate = [w \in Windows |->
                   IF InSeq(windows, w) THEN Some(WindowState(Point(2, 0), FALSE)) ELSE None]
    /\ ldrawn = [l \in Layers |-> FALSE]
    /\ \E l1 \in OutputLocations, l2 \in OutputLocations :
          ostate = [o \in Outputs |->
                      IF InSeq(outputs, o)
                      THEN Some(OutputState(IF o = "o1" THEN l1 ELSE l2, 1))
                      ELSE None]
    /\ activated = [w \in Windows |-> w = "w2" /\ InSeq(windows, w)]
    /\ alive = [w \in Windows |-> TRUE]
    /\ tree = [w \in Windows |-> IF InSeq(windows, w) THEN Wide ELSE NoState]
    /\ pending = [w \in Windows |-> [o \in Outputs |-> <<bbox(tree[w])>>]]
    /\ mode = [o \in Outputs |-> Some([w |-> 3, h |-> 1])]
    /\ layers = [o \in Outputs |-> <<>>]
    /\ linfo = [l \in Layers |-> [kind |-> "Bottom", geo |-> Rect(0, 0, 1, 1), pending |-> <<>>]]
    /\ last = NoCall
    /\ notified = {}
    /\ redraw = Idle
    /\ space_ids = NoIds
    /\ ops = 0

NextMember ==
    \/ \E w \in MemberWindows, loc \in Locations : map_window(w, loc)
    \/ \E w \in MemberWindows : unmap_window(w)
    \/ \E o \in Outputs, scale \in Scales, loc \in OutputLocations : map_output(o, scale, loc)
    \/ \E o \in Outputs : unmap_output(o)
    \/ \E w \in MemberWindows, t \in TreeStates : commit(w, t, TRUE)
    \/ \E w \in MemberWindows : destroy(w)
    \/ \E o \in Outputs, m \in Modes : set_mode(o, m)
    \/ refresh

SpecMember == InitMember /\ [][NextMember]_vars

\* Paint order on output o1: the run starts from the Space after map_output(o1, 1, (0, 0)),
\* map_window(w1, (0, 0)), map_window(w2, (1, 0)), with the two layers mapped on o1 in
\* either order, with any kinds, at (0, 0); nothing is painted yet.
InitPaint ==
    /\ windows = <<"w1", "w2">>
    /\ outputs = <<"o1">>
    /\ wstate = [w \in Windows |->
                   IF InSeq(windows, w)
                   THEN Some(WindowState(Point(IF w = "w1" THEN 0 ELSE 1, 0), FALSE))
                   ELSE None]
    /\ ldrawn = [l \in Layers |-> FALSE]
    /\ ostate = [o \in Outputs |-> IF o = "o1" THEN Some(OutputState(Point(0, 0), 1)) ELSE None]
    /\ activated = [w \in Windows |-> w = "w2"]
    /\ alive = [w \in Windows |-> TRUE]
    /\ tree = [w \in Windows |-> Wide]
    /\ pending = [w \in Windows |-> [o \in Outputs |-> <<bbox(tree[w])>>]]
    /\ mode = [o \in Outputs |-> IF o = "o1" THEN Some([w |-> 3, h |-> 1]) ELSE None]
    /\ \E order \in {<<"l1", "l2">>, <<"l2", "l1">>} :
          layers = [o \in Outputs |-> IF o = "o1" THEN order ELSE <<>>]
    /\ \E kinds \in [Layers -> LayerKinds] :
          linfo = [l \in Layers |->
                     [kind |-> kinds[l], geo |-> Rect(0, 0, 1, 1),
                      pending |-> <<Rect(0, 0, 1, 1)>>]]
    /\ last = NoCall
    /\ notified = {}
    /\ redraw = Idle
    /\ space_ids = NoIds
    /\ ops = 0

NextPaint ==
    \/ \E w \in {"w1", "w2"} : raise_window(w)
    \/ \E l \in Layers, g \in LayerGeos : arrange_layer(l, "o1", g)
    \/ \E l \in Layers : unmap_layer(l, "o1")
    \/ \E age \in Ages : render_output("o1", age)

SpecPaint == InitPaint /\ [][NextPaint]_vars

(***************************************************************************)
(* Space ids (space.rs:26-46, 95-112).  Threads create and drop Spaces;    *)
(* next_space_id and Drop run under the mutex of SPACE_IDS.  A panic while *)
(* the mutex is held poisons it, and lock().unwrap() panics on a poisoned  *)
(* mutex.                                                                  *)
(***************************************************************************)
id_vars == <<windows, outputs, wstate, ldrawn, ostate, activated, alive, tree, pending,
             mode, layers, linfo, last, notified, redraw, ops>>

\* SPACE_ID.fetch_add(1, Ordering::SeqCst): the counter wraps around
fetch_add(counter) == (counter + 1) % (2 ^ IdBits)

\* variant: no id is ever found in the set
taken_never(ids, id) == FALSE
\* ids.iter().any(|k| *k == id)
taken(ids, id) == id \in ids

\* thread t is at `pc` of next_space_id or of Drop
At(t, pc) == space_ids.th[t].pc = pc
\* thread t moves to `pc`; the rest of the allocator becomes `a`
Goes(a, t, pc) == [a EXCEPT !.th[t].pc = pc]

\* Space::new calls next_space_id: SPACE_IDS.lock().unwrap()
new_lock(t) ==
    /\ At(t, "idle") /\ space_ids.lock = ""
    /\ space_ids' = IF space_ids.poisoned
                    THEN Goes(space_ids, t, "panicked")
                    ELSE Goes([space_ids EXCEPT !.lock = t], t, "check")
    /\ UNCHANGED id_vars

\* if ids.len() == usize::MAX { panic!("Out of space ids") }
new_check(t) ==
    /\ At(t, "check")
    /\ space_ids' = IF Cardinality(space_ids.ids) = UsizeMax
                    THEN Goes([space_ids EXCEPT !.lock = "", !.poisoned = TRUE], t, "panicked")
                    ELSE Goes(space_ids, t, "fetch")
    /\ UNCHANGED id_vars

\* id = SPACE_ID.fetch_add(1, Ordering::SeqCst), before the loop and in its body
new_fetch(t) ==
    /\ At(t, "fetch")
    /\ space_ids' = Goes([space_ids EXCEPT !.th[t].id = space_ids.counter,
                                           !.counter = fetch_add(@),
                                           !.wrapped = @ \/ space_ids.counter = UsizeMax],
                         t, "test")
    /\ UNCHANGED id_vars

\* the test of the while loop; when it fails: ids.insert(id), the guard is dropped, and
\* Space::new returns the Space with this id
new_test(t) ==
    /\ At(t, "test")
    /\ space_ids' = LET id == space_ids.th[t].id
                    IN  IF taken(space_ids.ids, id)
                        THEN Goes(space_ids, t, "fetch")
                        ELSE Goes([space_ids EXCEPT !.ids = @ \cup {id},
                                                    !.lock = "",
                                                    !.th[t].space = Some(id),
                                                    !.issued[id] = Min(@ + 1, 2)],
                                  t, "live")
    /\ UNCHANGED id_vars

\* Drop for Space: SPACE_IDS.lock().unwrap()
drop_lock(t) ==
    /\ At(t, "live") /\ space_ids.lock = ""
    /\ space_ids' = IF space_ids.poisoned
                    THEN Goes([space_ids EXCEPT !.th[t].space = None], t, "panicked")
                    ELSE Goes([space_ids EXCEPT !.lock = t], t, "drop")
    /\ UNCHANGED id_vars

\* .remove(&self.id), the guard is dropped, the Space is gone
drop_remove(t) ==
    /\ At(t, "drop")
    /\ space_ids' = Goes([space_ids EXCEPT !.ids = @ \ {space_ids.th[t].id},
                                           !.lock = "",
                                           !.th[t].space = None],
                         t, "idle")
    /\ UNCHANGED id_vars

\* The run starts as the process starts: no Space exists, no id was handed out.
InitIds ==
    /\ windows = <<>>
    /\ outputs = <<>>
    /\ wstate = [w \in Windows |-> None]
    /\ ldrawn = [l \in Layers |-> FALSE]
    /\ ostate = [o \in Outputs |-> None]
    /\ activated = [w \in Windows |-> FALSE]
    /\ alive = [w \in Windows |-> TRUE]
    /\ tree = [w \in Windows |-> NoState]
    /\ pending = [w \in Windows |-> [o \in Outputs |-> <<>>]]
    /\ mode = [o \in Outputs |-> None]
    /\ layers = [o \in Outputs |-> <<>>]
    /\ linfo = [l \in Layers |-> [kind |-> "Bottom", geo |-> Rect(0, 0, 1, 1), pending |-> <<>>]]
    /\ last = NoCall
    /\ notified = {}
    /\ redraw = Idle
    /\ space_ids = NoIds
    /\ ops = 0

NextIds ==
    \/ \E t \in Threads : new_lock(t)
    \/ \E t \in Threads : new_check(t)
    \/ \E t \in Threads : new_fetch(t)
    \/ \E t \in Threads : new_test(t)
    \/ \E t \in Threads : drop_lock(t)
    \/ \E t \in Threads : drop_remove(t)

SpecIds == InitIds /\ [][NextIds]_vars

(***************************************************************************)
(* smallvil's winit backend (smallvil/src/winit.rs): the callback of the   *)
(* event source.  One event is handled at a time; the Redraw arm is a      *)
(* straight line of calls, each of which is a step here.  `unwrap` and     *)
(* `expect` on an Err panic.                                               *)
(***************************************************************************)
WindowSizes == {[w |-> 2, h |-> 1], [w |-> 3, h |-> 1], [w |-> 4, h |-> 1]}
\* key code 4 asks for a screenshot
Keys == {4, 5}

space_vars == <<windows, outputs, wstate, ldrawn, ostate, activated, alive, tree, pending,
                layers, linfo, last, notified, space_ids, ops>>

\* WinitEvent::Resized: output.change_current_state(Some(Mode { size, .. }), None, None, None)
Resized(size) ==
    /\ redraw.pc = "idle"
    /\ mode' = [mode EXCEPT !["o1"] = Some(size)]
    /\ UNCHANGED <<space_vars, redraw>>

\* WinitEvent::Input: a press of key 4 sets screenshot_requested
Input(key, pressed) ==
    /\ redraw.pc = "idle"
    /\ redraw' = [redraw EXCEPT !.screenshot_requested = @ \/ (key = 4 /\ pressed)]
    /\ UNCHANGED <<space_vars, mode>>

\* WinitEvent::CloseRequested: state.loop_signal.stop()
CloseRequested ==
    /\ redraw.pc = "idle"
    /\ redraw' = [redraw EXCEPT !.pc = "stopped"]
    /\ UNCHANGED <<space_vars, mode>>

\* WinitEvent::Redraw arrives: the tick begins
Redraw ==
    /\ redraw.pc = "idle"
    /\ redraw' = [redraw EXCEPT !.pc = "bind", !.log = <<>>, !.requested = FALSE]
    /\ UNCHANGED <<space_vars, mode>>

\* a call whose Result is unwrapped: the handler goes on, or the thread panics
unwrap(r, name, next, ok) ==
    IF ok THEN handler_step(r, name, next) ELSE [r EXCEPT !.pc = "panicked"]

\* backend.bind().unwrap()
bind(ok) ==
    /\ redraw.pc = "bind"
    /\ redraw' = unwrap(redraw, "bind", "render", ok)
    /\ UNCHANGED <<space_vars, mode>>

\* variant: the frame notifications follow the render, the buffer is not presented
render_then_frames(ok) ==
    /\ redraw.pc = "render"
    /\ redraw' = unwrap(redraw, "render", "frames", ok)
    /\ UNCHANGED <<space_vars, mode>>
\* smithay::desktop::space::render_output(..).unwrap()
render(ok) ==
    /\ redraw.pc = "render"
    /\ redraw' = unwrap(redraw, "render",
                        IF redraw.screenshot_requested THEN "screenshot" ELSE "present", ok)
    /\ UNCHANGED <<space_vars, mode>>

\* if screenshot_requested { save_buffer_to_png(..); screenshot_requested = false }
save_buffer_to_png(ok) ==
    /\ redraw.pc = "screenshot"
    /\ redraw' = [unwrap(redraw, "screenshot", "present", ok)
                    EXCEPT !.screenshot_requested = @ /\ ~ok]
    /\ UNCHANGED <<space_vars, mode>>

\* backend.submit(Some(&[damage])).unwrap(): the buffer is presented
submit(ok) ==
    /\ redraw.pc = "present"
    /\ redraw' = unwrap(redraw, "present", "frames", ok)
    /\ UNCHANGED <<space_vars, mode>>

\* state.space.elements().for_each(|window| window.send_frame(..))
send_frame ==
    /\ redraw.pc = "frames"
    /\ redraw' = handler_step(redraw, "frames", "refresh")
    /\ UNCHANGED <<space_vars, mode>>

\* state.space.refresh()
space_refresh == redraw.pc = "refresh" /\ refresh

\* state.popups.cleanup()
popups_cleanup ==
    /\ redraw.pc = "cleanup"
    /\ redraw' = handler_step(redraw, "cleanup", "flush")
    /\ UNCHANGED <<space_vars, mode>>

\* let _ = display.flush_clients(): the Result is dropped
flush_clients ==
    /\ redraw.pc = "flush"
    /\ redraw' = handler_step(redraw, "flush", "request")
    /\ UNCHANGED <<space_vars, mode>>

\* backend.window().request_redraw(), and the callback returns
request_redraw ==
    /\ redraw.pc = "request"
    /\ redraw' = [handler_step(redraw, "request", "idle") EXCEPT !.requested = TRUE]
    /\ UNCHANGED <<space_vars, mode>>

\* The run starts after init_winit: the output has its mode and is mapped at (0, 0); no
\* window is mapped yet, or one is.
InitRedraw ==
    /\ windows \in {<<>>, <<"w1">>}
    /\ outputs = <<"o1">>
    /\ wstate = [w \in Windows |->
                   IF InSeq(windows, w) THEN Some(WindowState(Point(0, 0), FALSE)) ELSE None]
    /\ ldrawn = [l \in Layers |-> FALSE]
    /\ ostate = [o \in Outputs |->
                   IF o = "o1" THEN Some(OutputState(Point(0, 0), 1)) ELSE None]
    /\ activated = [w \in Windows |-> InSeq(windows, w)]
    /\ alive = [w \in Windows |-> TRUE]
    /\ tree = [w \in Windows |-> IF InSeq(windows, w) THEN Wide ELSE NoState]
    /\ pending = [w \in Windows |-> [o \in Outputs |-> <<bbox(tree[w])>>]]
    /\ mode = [o \in Outputs |-> IF o = "o1" THEN Some([w |-> 3, h |-> 1]) ELSE None]
    /\ layers = [o \in Outputs |-> <<>>]
    /\ linfo = [l \in Layers |-> [kind |-> "Bottom", geo |-> Rect(0, 0, 1, 1), pending |-> <<>>]]
    /\ last = NoCall
    /\ notified = {}
    /\ redraw = Idle
    /\ space_ids = NoIds
    /\ ops = 0

NextRedraw ==
    \/ \E size \in WindowSizes : Resized(size)
    \/ \E key \in Keys, pressed \in BOOLEAN : Input(key, pressed)
    \/ CloseRequested
    \/ Redraw
    \/ \E ok \in BOOLEAN : bind(ok)
    \/ \E ok \in BOOLEAN : render(ok)
    \/ \E ok \in BOOLEAN : save_buffer_to_png(ok)
    \/ \E ok \in BOOLEAN : submit(ok)
    \/ send_frame
    \/ space_refresh
    \/ popups_cleanup
    \/ flush_clients
    \/ request_redraw

SpecRedraw == InitRedraw /\ [][NextRedraw]_vars

(***************************************************************************)
(* Properties.                                                             *)
(***************************************************************************)
IsRender(call) == call.op = "render_output" /\ call.result # "Err(OutputNoMode)"
Disjoint(damage) ==
    \A i, j \in 1..Len(damage) : i # j => ~overlaps(damage[i], damage[j])

\* C1: the reduced damage set render_output hands to the renderer holds no two
\* distinct rectangles that overlap each other.
C1_ReducedDamageDisjoint == IsRender(last) => Disjoint(last.damage)

\* C2: right after map_window(w, loc), whether w was mapped before or not, w is the last
\* (topmost) window, its location is loc, it is activated and every other mapped window
\* is deactivated, and the other windows keep their relative order.
C2_MapWindowRaises ==
    [][last'.op = "map_window" =>
        LET w == last'.win
        IN  /\ Len(windows') > 0
            /\ windows'[Len(windows')] = w
            /\ IsSome(wstate'[w])
            /\ Get(wstate'[w]).location = last'.loc
            /\ activated'[w]
            /\ \A v \in SeqToSet(windows') \ {w} : ~activated'[v]
            /\ Without(windows', w) = Without(windows, w)]_vars

\* the OutputState of a mapped output
OState(o) == Get(ostate[o])
\* the drawn flag of a toplevel, by its id
Drawn(ws, ld, id) ==
    IF id.kind = "Xdg" THEN IsSome(ws[id.id]) /\ Get(ws[id.id]).drawn ELSE ld[id.id]
\* the toplevels render_output(o, ..) looks at
Toplevels(o) == SeqToSet(paint_order(o))
\* no mapped window and no layer of o holds self-damage that was not read yet
NoUnreadDamage(o) ==
    /\ \A w \in SeqToSet(windows) : pending[w][o] = <<>>
    /\ \A l \in SeqToSet(layers[o]) : linfo[l].pending = <<>>
\* the age most recent entries of the damage history exist and hold no rectangle
HistoryEmptyFor(o, age) ==
    /\ age >= 1
    /\ Len(OState(o).old_damage) >= age
    /\ Flatten(SubSeq(OState(o).old_damage, 1, age)) = <<>>

\* C3 (as claimed): after a render_output that returned drew=true, a second render_output
\* of the same output with nothing changed in between computes an empty damage set,
\* returns drew=false and does not call the renderer, whatever age it is passed.
C3_SecondRenderIdle ==
    [][(/\ last.op = "render_output" /\ last.result = "Ok(true)"
        /\ last'.op = "render_output" /\ last'.out = last.out /\ IsRender(last'))
       => (last'.damage = <<>> /\ last'.result = "Ok(false)" /\ ~last'.rendered)]_vars

\* C3 (amended): as above, when the second render is passed an age between 1 and the
\* length of the damage history, the age most recent history entries hold no rectangle
\* and no window or layer holds self-damage that was not read yet.
C3_SecondRenderIdleWithAge ==
    [][(/\ last.op = "render_output" /\ last.result = "Ok(true)"
        /\ last'.op = "render_output" /\ last'.out = last.out /\ IsRender(last')
        /\ HistoryEmptyFor(last.out, last'.age)
        /\ NoUnreadDamage(last.out))
       => (last'.damage = <<>> /\ last'.result = "Ok(false)" /\ ~last'.rendered)]_vars

\* a render with age 1 found nothing to draw with windows mapped, after a pass that drew and
\* captured last_state; the history, cut to the age, is the one empty entry of that pass
C3_Witness ==
    /\ ops >= 2 /\ last.op = "render_output" /\ last.result = "Ok(false)" /\ last.age >= 1
    /\ ~last.rendered /\ last.damage = <<>>
    /\ windows # <<>>
    /\ OState(last.out).last_state # <<>>
    /\ OState(last.out).old_damage = <<<<>>>>

\* C4: send_frames(false, t) notifies, once each, exactly the mapped windows and the layers
\* of mapped outputs whose drawn flag is true when the call starts; afterwards all their
\* drawn flags are false, so a second send_frames(false, t') notifies nobody.
C4_SendFramesDrawnOnly ==
    [][(last'.op = "send_frames" /\ ~last'.all)
       => /\ SeqToSet(last'.frames) =
               {Xdg(w) : w \in {v \in SeqToSet(windows) : Drawn(wstate, ldrawn, Xdg(v))}}
               \cup {LayerId(l) : l \in {k \in SeqToSet(mapped_layers) : ldrawn[k]}}
          /\ Cardinality(SeqToSet(last'.frames)) = Len(last'.frames)
          /\ \A w \in SeqToSet(windows') : ~Drawn(wstate', ldrawn', Xdg(w))
          /\ \A l \in SeqToSet(mapped_layers') : ~ldrawn'[l]
          /\ (last.op = "send_frames" /\ ~last.all => last'.frames = <<>>)]_vars

\* a send_frames(false) that notified some mapped toplevels and skipped a mapped window
C4_Witness ==
    /\ last.op = "send_frames" /\ ~last.all
    /\ last.frames # <<>>
    /\ \E w \in SeqToSet(windows) : ~InSeq(last.frames, Xdg(w))

\* C5: when render_output returns drew=true, the toplevels painted are exactly the mapped
\* windows and the output's layers whose rectangle overlaps a rectangle of the reduced
\* damage, each of them has its drawn flag true afterwards, and a toplevel that overlaps
\* no damage rectangle is not painted and keeps its drawn flag.
C5_PaintedIffDamaged ==
    [][(last'.op = "render_output" /\ last'.result = "Ok(true)")
       => /\ SeqToSet(last'.painted) \subseteq Toplevels(last'.out)
          /\ \A id \in Toplevels(last'.out) :
                IF is_damaged(paint_rect(id), last'.damage)
                THEN InSeq(last'.painted, id) /\ Drawn(wstate', ldrawn', id)
                ELSE /\ ~InSeq(last'.painted, id)
                     /\ Drawn(wstate', ldrawn', id) = Drawn(wstate, ldrawn, id)]_vars

\* C6: if the renderer fails anywhere in the pass (render itself, clear, a paint call),
\* render_output returns a rendering error and leaves last_state and old_damage empty,
\* and the next render_output of that output composes the full output rectangle.
C6_FailureResetsState ==
    [][/\ (last'.op = "render_output" /\ last'.failed # "none")
          => /\ last'.result = "Err(Rendering)"
             /\ Get(ostate'[last'.out]).last_state = <<>>
             /\ Get(ostate'[last'.out]).old_damage = <<>>
       /\ (/\ last.op = "render_output" /\ last.failed # "none"
           /\ last'.op = "render_output" /\ last'.out = last.out /\ IsRender(last'))
          => last'.composed = <<Get(output_geometry(last.out))>>]_vars

\* C7: render_output with age 0 on a freshly mapped output (no last_state, no history)
\* with a mode of positive size reduces the damage to the one rectangle of the output's
\* geometry, whatever is mapped and whatever damage is reported.
C7_FreshOutputFullDamage ==
    [][(/\ last'.op = "render_output" /\ last'.age = 0
        /\ IsSome(mode[last'.out]) /\ Get(mode[last'.out]).w > 0 /\ Get(mode[last'.out]).h > 0
        /\ OState(last'.out).last_state = <<>>
        /\ OState(last'.out).old_damage = <<>>)
       => last'.damage = <<Get(output_geometry(last'.out))>>]_vars

\* the first operation was such a render, with windows mapped that reported damage
C7_Witness ==
    /\ ops = 1 /\ last.op = "render_output" /\ last.age = 0
    /\ windows # <<>> /\ last.new_damage # <<>>
    /\ last.damage = <<Get(output_geometry(last.out))>>

\* window w was last painted at its last_state rectangle and has since been moved, without
\* a change of size, to a rectangle that overlaps the old one
MovedOverlapping(w, o) ==
    LET old_geo == last_state_get(OState(o).last_state, Xdg(w))
        geo == window_rect_with_popups(w)
    IN  /\ IsSome(old_geo)
        /\ Get(old_geo) # geo
        /\ Get(old_geo).w = geo.w /\ Get(old_geo).h = geo.h
        /\ overlaps(Get(old_geo), geo)
OldRect(w, o) == Get(last_state_get(OState(o).last_state, Xdg(w)))

\* C8 (as claimed): when a window last painted at R_old was moved to an overlapping R_new
\* and there is no other new damage, the damage of the next render is R_old and R_new,
\* reduced to the one smallest rectangle enclosing both.
C8_MoveDamageMerged ==
    [][(last'.op = "render_output" /\ IsRender(last'))
       => \A w \in SeqToSet(windows) :
             (/\ MovedOverlapping(w, last'.out)
              /\ last'.new_damage = <<OldRect(w, last'.out), window_rect_with_popups(w)>>)
             => last'.damage = <<merge(OldRect(w, last'.out), window_rect_with_popups(w))>>]_vars

\* C8 (amended): the new damage of that render is R_old and R_new; it is reduced to the
\* one smallest enclosing rectangle when the render is passed an age between 1 and the
\* length of the damage history, the age most recent history entries hold no rectangle,
\* and R_old and R_new both overlap the output.  (100,100,200,200) moved to
\* (150,100,200,200) on an 800x600 output gives (100,100,250,200).
C8_MoveDamageMergedWithAge ==
    [][/\ (last'.op = "render_output" /\ IsRender(last'))
          => \A w \in SeqToSet(windows) :
                MovedOverlapping(w, last'.out)
                => /\ \E i \in 1..Len(last'.contrib) :
                         /\ last'.contrib[i].id = Xdg(w)
                         /\ last'.contrib[i].rects =
                              <<OldRect(w, last'.out), window_rect_with_popups(w)>>
                   /\ (/\ last'.new_damage =
                            <<OldRect(w, last'.out), window_rect_with_popups(w)>>
                       /\ HistoryEmptyFor(last'.out, last'.age)
                       /\ overlaps(OldRect(w, last'.out), Get(output_geometry(last'.out)))
                       /\ overlaps(window_rect_with_popups(w), Get(output_geometry(last'.out))))
                      => last'.damage =
                           <<merge(OldRect(w, last'.out), window_rect_with_popups(w))>>
       /\ last'.op = "render_output"
          => reduce_damage(<<Rect(100, 100, 200, 200), Rect(150, 100, 200, 200)>>,
                           Rect(0, 0, 800, 600)) = <<Rect(100, 100, 250, 200)>>]_vars

\* a render with a usable, empty history whose only damage was the old and the new
\* rectangle of one moved window, reduced to one rectangle larger than either
C8_Witness ==
    /\ last.op = "render_output" /\ last.age >= 1 /\ last.result = "Ok(true)"
    /\ Len(last.new_damage) = 2 /\ last.composed = last.new_damage
    /\ last.new_damage[1] # last.new_damage[2]
    /\ last.new_damage[1].w = last.new_damage[2].w
    /\ \E i \in 1..Len(last.contrib) :
          last.contrib[i].id.kind = "Xdg" /\ last.contrib[i].rects = last.new_damage
    /\ last.damage = <<merge(last.new_damage[1], last.new_damage[2])>>
    /\ last.damage[1].w > last.new_damage[1].w

\* C9: in every render_output call, a mapped window whose rectangle equals its last_state
\* entry and whose accumulated self-damage is empty adds no rectangle to the new damage.
C9_UnchangedWindowNoDamage ==
    [][(last'.op = "render_output" /\ IsRender(last'))
       => \A i \in 1..Len(windows) :
             (/\ last_state_get(OState(last'.out).last_state, Xdg(windows[i]))
                   = Some(window_rect_with_popups(windows[i]))
              /\ pending[windows[i]][last'.out] = <<>>)
             => /\ last'.contrib[i].id = Xdg(windows[i])
                /\ last'.contrib[i].rects = <<>>]_vars

\* a render that drew nothing (so last_state is what it was before the call) while a mapped
\* window sat at its last_state rectangle and added nothing
C9_Witness ==
    /\ last.op = "render_output" /\ last.result = "Ok(false)"
    /\ \E i \in 1..Len(windows) :
          /\ last_state_get(OState(last.out).last_state, Xdg(windows[i]))
               = Some(window_rect_with_popups(windows[i]))
          /\ last.contrib[i].id = Xdg(windows[i])
          /\ last.contrib[i].rects = <<>>

\* the surfaces of window w that output o has entered
EnteredOf(w, o) == {s \in SeqToSet(OState(o).surfaces) : s.win = w}
\* window w, mapped with entered surfaces, has just been moved by map_window to where its
\* bounding box overlaps no mapped output
MovedOffOutputs(w) ==
    /\ last.op = "map_window" /\ last.win = w
    /\ InSeq(windows, w)
    /\ \E o \in SeqToSet(outputs) : EnteredOf(w, o) # {}
    /\ \A o \in SeqToSet(outputs) : ~overlaps(output_geometry_or_zero(o), window_rect(w))

\* C10 (as claimed): when a mapped window with entered surfaces has been moved off every
\* mapped output and refresh() is called, every entered surface of the window gets a leave
\* on each output, and the surfaces set of that output is empty afterwards.
C10_LeaveAndEmpty ==
    [][last'.op = "refresh"
       => \A w \in Windows :
             MovedOffOutputs(w)
             => \A o \in SeqToSet(outputs) :
                   /\ \A s \in EnteredOf(w, o) :
                         InSeq(last'.left, [surface |-> s, output |-> o])
                   /\ (EnteredOf(w, o) # {} => Get(ostate'[o]).surfaces = <<>>)]_vars

\* C10 (amended): when the window's toplevel is alive, every entered surface of the window
\* gets a leave on each output, and afterwards no surface of that window is in the
\* surfaces set of any mapped output.
C10_LeaveAndGone ==
    [][last'.op = "refresh"
       => \A w \in Windows :
             (MovedOffOutputs(w) /\ alive[w])
             => \A o \in SeqToSet(outputs) :
                   /\ \A s \in EnteredOf(w, o) :
                         InSeq(last'.left, [surface |-> s, output |-> o])
                   /\ \A s \in SeqToSet(Get(ostate'[o]).surfaces) : s.win # w]_vars

\* a refresh sent leaves, on two outputs, to a mapped window that was moved from where it
\* started and now overlaps no mapped output, while still having a surface with a buffer
C10_Witness ==
    /\ last.op = "refresh"
    /\ \E w \in SeqToSet(windows) :
          /\ alive[w]
          /\ window_state(w).location # Point(2, 0)
          /\ window_rect(w).w > 0
          /\ \A o \in SeqToSet(outputs) : ~overlaps(output_geometry_or_zero(o), window_rect(w))
          /\ \E s \in {Surface(w, "root"), Surface(w, "sub")} :
                /\ InSeq(last.left, [surface |-> s, output |-> "o1"])
                /\ InSeq(last.left, [surface |-> s, output |-> "o2"])

\* C11: send_frames(true, t) notifies every mapped window and every layer of every mapped
\* output whatever its drawn flag, and still resets: afterwards every one of their drawn
\* flags is false, so a send_frames(false, t') right after it notifies nobody.
C11_SendAllResets ==
    [][/\ (last'.op = "send_frames" /\ last'.all)
          => /\ last'.frames = [i \in 1..Len(windows) |-> Xdg(windows[i])]
                                 \o [i \in 1..Len(mapped_layers) |-> LayerId(mapped_layers[i])]
             /\ \A w \in SeqToSet(windows') : ~Drawn(wstate', ldrawn', Xdg(w))
             /\ \A l \in SeqToSet(mapped_layers') : ~ldrawn'[l]
       /\ (/\ last.op = "send_frames" /\ last.all
           /\ last'.op = "send_frames" /\ ~last'.all)
          => last'.frames = <<>>]_vars

\* C12: raise_window(w) on a mapped window makes w the last element of windows() and keeps
\* the relative order of the other windows; on a window that is not mapped it changes
\* nothing: z-order, activation of every window and every side-table entry stay.
C12_RaiseWindow ==
    [][last'.op = "raise_window"
       => LET w == last'.win
          IN  IF InSeq(windows, w)
              THEN /\ windows'[Len(windows')] = w
                   /\ Len(windows') = Len(windows)
                   /\ Without(windows', w) = Without(windows, w)
              ELSE /\ windows' = windows
                   /\ activated' = activated
                   /\ wstate' = wstate /\ ostate' = ostate /\ ldrawn' = ldrawn]_vars

\* a raise_window of a mapped window left it last, above two other windows
C12_Witness ==
    /\ last.op = "raise_window"
    /\ Len(windows) = 3
    /\ windows[3] = last.win

PaintRank(id) ==
    IF id.kind = "Xdg" THEN 2
    ELSE CASE linfo[id.id].kind = "Background" -> 0
           [] linfo[id.id].kind = "Bottom" -> 1
           [] linfo[id.id].kind = "Top" -> 3
           [] OTHER -> 4
\* the position of window w in the z-order
ZIndex(w) == CHOOSE i \in 1..Len(windows) : windows[i] = w

\* C14: in every render pass that reaches the renderer, the clear happens before any paint
\* call, and the paint calls come in the order background layers, bottom layers, windows
\* in z-order back to front, top layers, overlay layers.
C14_PaintOrder ==
    [][(last'.op = "render_output" /\ last'.rendered)
       => /\ (last'.painted # <<>> => last'.cleared)
          /\ \A i, j \in 1..Len(last'.painted) :
                i < j =>
                   /\ PaintRank(last'.painted[i]) <= PaintRank(last'.painted[j])
                   /\ (last'.painted[i].kind = "Xdg" /\ last'.painted[j].kind = "Xdg")
                      => ZIndex(last'.painted[i].id) < ZIndex(last'.painted[j].id)]_vars

\* a pass painted a lower layer, then the two windows, then an upper layer
C14_Witness ==
    /\ last.op = "render_output" /\ last.cleared
    /\ Len(last.painted) = 4
    /\ last.painted[1].kind = "Layer" /\ PaintRank(last.painted[1]) < 2
    /\ last.painted[2] = Xdg(windows[1]) /\ last.painted[3] = Xdg(windows[2])
    /\ last.painted[4].kind = "Layer" /\ PaintRank(last.painted[4]) > 2
    /\ layers["o1"] = <<last.painted[4].id, last.painted[1].id>>

\* C15: render_output on a mapped output without a current mode returns OutputNoMode, does
\* not call the renderer and changes neither last_state, the damage history, a drawn flag
\* nor the registries; a render_output of an output that has a mode never returns it.
C15_NoModeNoEffect ==
    [][last'.op = "render_output"
       => IF ~IsSome(mode[last'.out])
          THEN /\ last'.result = "Err(OutputNoMode)"
               /\ ~last'.rendered /\ ~last'.cleared /\ last'.painted = <<>>
               /\ ostate' = ostate
               /\ wstate' = wstate /\ ldrawn' = ldrawn
               /\ windows' = windows /\ outputs' = outputs
               /\ pending' = pending /\ linfo' = linfo
          ELSE /\ last'.result \in {"Ok(false)", "Ok(true)", "Err(Rendering)"}
               /\ (last.op = "render_output" /\ last.result = "Err(OutputNoMode)"
                     /\ last.out = last'.out /\ last'.failed = "none" /\ last'.age = 0)
                  => last'.result = "Ok(true)"]_vars

\* a render_output failed for want of a mode after an earlier pass had painted windows
C15_Witness ==
    /\ last.op = "render_output" /\ last.result = "Err(OutputNoMode)"
    /\ windows # <<>>
    /\ OState(last.out).last_state # <<>>
    /\ OState(last.out).old_damage # <<>>
    /\ \E w \in SeqToSet(windows) : window_state(w).drawn

\* the area of the intersection of the geometry of output o with the bounding box of w
AreaOn(o, w) ==
    LET g == output_geometry_or_zero(o)
        b == window_rect(w)
    IN  Max(0, Min(g.x + g.w, b.x + b.w) - Max(g.x, b.x))
        * Max(0, Min(g.y + g.h, b.y + b.h) - Max(g.y, b.y))

\* C16: for a mapped window w, outputs_for_window(w) returns exactly the mapped outputs
\* whose geometry overlaps the bounding box of w, each once, in order of non-decreasing
\* overlap area; for a window that is not mapped it returns the empty list.
C16_OutputsForWindow ==
    \A w \in Windows :
       LET r == outputs_for_window(w)
       IN  /\ ~r.panic
           /\ IF InSeq(windows, w)
              THEN /\ SeqToSet(r.outputs) =
                        {o \in SeqToSet(outputs) :
                            /\ IsSome(output_geometry(o))
                            /\ overlaps(Get(output_geometry(o)), window_rect(w))}
                   /\ Cardinality(SeqToSet(r.outputs)) = Len(r.outputs)
                   /\ \A i, j \in 1..Len(r.outputs) :
                         i < j => AreaOn(r.outputs[i], w) <= AreaOn(r.outputs[j], w)
              ELSE r.outputs = <<>>

\* C17: in render_output, every mapped window and every layer of the output that has no
\* entry in last_state adds its current bounding rectangle to the new damage of the frame,
\* whatever self-damage it reports.
C17_NewToplevelDamaged ==
    [][(last'.op = "render_output" /\ IsRender(last'))
       => \A id \in Toplevels(last'.out) :
             last_state_get(OState(last'.out).last_state, id) = None
             => /\ InSeq(last'.new_damage, paint_rect(id))
                /\ \E i \in 1..Len(last'.contrib) :
                      /\ last'.contrib[i].id = id
                      /\ InSeq(last'.contrib[i].rects, paint_rect(id))]_vars

\* C18: when the age passed to this and to every earlier pass is the true staleness of the
\* buffer being painted (0 when unknown) and no pass failed, the reduced damage of a render covers every pixel of the output where the
\* current scene differs from what that buffer holds.
C18_DamageCoversChanges ==
    [][(/\ last'.op = "render_output" /\ IsRender(last')
        /\ OState(last'.out).trusted
        /\ true_age(last'.out, last'.age))
       => \A p \in Pixels(last'.out) :
             base_buffer(last'.out, last'.age)[p] # scene_at(last'.out, p)
             => in_damage(last'.damage, p)]_vars

\* C19: the damage history of an output is bounded by the ages passed: every age passed to
\* render_output is at most MaxAge, so old_damage never holds more than MaxAge + 1 entries.
C19_HistoryBounded ==
    \A o \in SeqToSet(outputs) : Len(OState(o).old_damage) <= MaxAge + 1

\* last_state holds exactly one entry per mapped window and per layer of o, with its
\* current bounding rectangle
LastStateIsScene(o) ==
    LET ls == OState(o).last_state
    IN  /\ Len(ls) = Cardinality(Toplevels(o))
        /\ \A id \in Toplevels(o) : last_state_get(ls, id) = Some(paint_rect(id))
        /\ \A i \in 1..Len(ls) : ls[i].id \in Toplevels(o)

\* C20: when render_output is called with age > 0 and the history holds at least age
\* entries, the history is cut to its age most recent entries and the composed damage is
\* the new damage of the frame followed by exactly those entries; after a render that
\* returned drew=true the front entry of the history is the new damage of the frame,
\* unreduced and without the history rectangles, and last_state holds exactly one entry
\* per mapped window and layer, equal to its current bounding rectangle.
C20_HistoryAndCapture ==
    [][(last'.op = "render_output" /\ IsRender(last'))
       => LET old == OState(last'.out).old_damage
              age == last'.age
          IN  /\ (age > 0 /\ Len(old) >= age)
                 => /\ last'.composed = last'.new_damage \o Flatten(SubSeq(old, 1, age))
                    /\ last'.result = "Ok(false)"
                       => Get(ostate'[last'.out]).old_damage = SubSeq(old, 1, age)
                    /\ last'.result = "Ok(true)"
                       => Get(ostate'[last'.out]).old_damage
                            = <<last'.new_damage>> \o SubSeq(old, 1, age)
              /\ last'.result = "Ok(true)"
                 => /\ Get(ostate'[last'.out]).old_damage # <<>>
                    /\ Get(ostate'[last'.out]).old_damage[1] = last'.new_damage
                    /\ last'.new_damage
                         = gone_damage(last'.out)
                           \o Flatten([i \in 1..Len(last'.contrib) |-> last'.contrib[i].rects])
                    /\ \A o \in {last'.out} \cap Outputs : LastStateIsScene(o)']_vars

\* a pass with age 1 cut a longer history to one entry, composed its own new damage with
\* that entry, drew, and left the two on the history with windows in last_state
C20_Witness ==
    /\ last.op = "render_output" /\ last.age = 1 /\ last.result = "Ok(true)"
    /\ Len(OState(last.out).old_damage) = 2
    /\ OState(last.out).old_damage[1] = last.new_damage
    /\ last.new_damage # <<>> /\ OState(last.out).old_damage[2] # <<>>
    /\ last.composed = last.new_damage \o OState(last.out).old_damage[2]
    /\ last.damage # last.composed
    /\ windows # <<>> /\ LastStateIsScene(last.out)


Parts == {"root", "sub"}
\* surface `part` of window w has a committed buffer size and its absolute rectangle
\* overlaps the geometry of output o
OnOutput(w, part, o) ==
    /\ IsSome(surface_size(tree[w], part))
    /\ IsSome(output_geometry(o))
    /\ overlaps(Get(output_geometry(o)),
                Rect(surface_location(w, part).x, surface_location(w, part).y,
                     SurfSize.w, SurfSize.h))
\* the walk of refresh reaches the surface: no surface above it is without rendering state
Reached(w, part) == part = "root" \/ tree[w].root # "nodata"
\* the events of the last refresh go to surfaces that were not / were in the set before it
EventsMatchSet ==
    /\ \A i \in 1..Len(last'.entered) :
          ~InSeq(OState(last'.entered[i].output).surfaces, last'.entered[i].surface)
    /\ \A i \in 1..Len(last'.left) :
          InSeq(OState(last'.left[i].output).surfaces, last'.left[i].surface)

\* C21 (as claimed): after every refresh(), for every mapped output O and every surface s
\* in the tree of a mapped, alive window, s is in O's surfaces set if and only if s has a
\* committed buffer size and its absolute rectangle overlaps O's geometry; refresh sends
\* an enter for s only when s was not in the set and a leave only when it was.
C21_SetIsOverlap ==
    [][last'.op = "refresh"
       => /\ \A o \in Outputs, w \in Windows, part \in Parts :
                (InSeq(outputs', o) /\ InSeq(windows', w) /\ alive'[w])
                => (InSeq(OState(o).surfaces, Surface(w, part)) <=> OnOutput(w, part, o))'
          /\ EventsMatchSet]_vars

\* C21 (amended): the same for the surfaces the walk reaches, that is the root surface and
\* every surface below surfaces that all have rendering state.
C21_SetIsOverlapReached ==
    [][last'.op = "refresh"
       => /\ \A o \in Outputs, w \in Windows, part \in Parts :
                (InSeq(outputs', o) /\ InSeq(windows', w) /\ alive'[w] /\ Reached(w, part)')
                => (InSeq(OState(o).surfaces, Surface(w, part)) <=> OnOutput(w, part, o))'
          /\ EventsMatchSet]_vars

\* a refresh sent an enter and a leave and left, on a mapped output, one surface of an
\* alive mapped window in the set and another surface, which has a buffer, out of it
C21_Witness ==
    /\ last.op = "refresh"
    /\ last.entered # <<>> /\ last.left # <<>>
    /\ \E o \in SeqToSet(outputs), w \in SeqToSet(windows), v \in SeqToSet(windows) :
          /\ alive[w] /\ alive[v]
          /\ \E p \in Parts : Reached(w, p) /\ InSeq(OState(o).surfaces, Surface(w, p))
          /\ \E p \in Parts : /\ Reached(v, p) /\ IsSome(surface_size(tree[v], p))
                              /\ ~InSeq(OState(o).surfaces, Surface(v, p))


\* C22: for every pair of a surface and an output, enter and leave notifications strictly
\* alternate starting with enter, over every sequence of map_window, unmap_window,
\* map_output (of a new or of a mapped output), unmap_output and refresh: no enter is sent
\* to a pair whose last notification was an enter, and no leave to a pair whose last
\* notification was not an enter.
C22_EnterLeaveAlternate ==
    [][last'.op = "refresh"
       => /\ \A i \in 1..Len(last'.entered) :
                <<last'.entered[i].surface, last'.entered[i].output>> \notin notified
          /\ \A i \in 1..Len(last'.left) :
                <<last'.left[i].surface, last'.left[i].output>> \in notified]_vars


\* C23: after unmap_window(w) followed by refresh(), no surface of w remains in the
\* surfaces set of any mapped output, and a leave notification has been sent for every
\* surface of w that had been entered on that output.
C23_UnmapThenRefreshLeaves ==
    [][(last.op = "unmap_window" /\ last'.op = "refresh")
       => \A w \in {last.win} \cap Windows, o \in SeqToSet(outputs) :
             /\ \A s \in SeqToSet(Get(ostate'[o]).surfaces) : s.win # w
             /\ \A s \in EnteredOf(w, o) :
                   InSeq(last'.left, [surface |-> s, output |-> o])]_vars


\* C24: if a render pass fails after some entities were already painted, the drawn flag
\* of every window and layer is the same as before the call (so that a following
\* send_frames(false, t) sends no frame notification on account of the failed pass).
C24_FailedPassKeepsDrawn ==
    [][(/\ last'.op = "render_output"
        /\ last'.failed \in {"paint", "finish"}
        /\ last'.painted # <<>>)
       => /\ \A w \in Windows :
                Drawn(wstate', ldrawn', Xdg(w)) = Drawn(wstate, ldrawn, Xdg(w))
          /\ ldrawn' = ldrawn]_vars


\* where a step stands in the log of the tick (0: not in it)
Pos(name) ==
    IF InSeq(redraw.log, name)
    THEN CHOOSE i \in 1..Len(redraw.log) : redraw.log[i] = name ELSE 0
\* the handler has returned from a redraw tick, or the tick ended in a panic
TickReturned == redraw.pc \in {"idle", "stopped"} /\ redraw.log # <<>>
TickEnded == TickReturned \/ redraw.pc = "panicked"

\* C25 (as claimed): in every redraw tick the steps occur in the order refresh of the
\* space, render of the output, frame notifications, presentation of the buffer, request
\* for the next tick; every redraw tick ends by requesting the next one.
C25_TickOrderClaimed ==
    TickEnded
    => /\ 0 < Pos("refresh") /\ Pos("refresh") < Pos("render")
       /\ Pos("render") < Pos("frames") /\ Pos("frames") < Pos("present")
       /\ Pos("present") < Pos("request")
       /\ redraw.log[Len(redraw.log)] = "request" /\ redraw.requested

\* C25 (amended): in every redraw tick from which the handler returns the steps occur in
\* the order render of the output, presentation of the buffer, frame notifications,
\* refresh of the space, request for the next tick, each once, and the request is the last
\* step; a tick in which binding, rendering, the screenshot or the presentation fails ends
\* in a panic without a request.
C25_TickOrder ==
    /\ TickReturned
       => /\ 0 < Pos("render") /\ Pos("render") < Pos("present")
          /\ Pos("present") < Pos("frames") /\ Pos("frames") < Pos("refresh")
          /\ Pos("refresh") < Pos("request")
          /\ Pos("request") = Len(redraw.log)
          /\ \A i, j \in 1..Len(redraw.log) : redraw.log[i] = redraw.log[j] => i = j
          /\ (redraw.pc = "idle" => redraw.requested)
    /\ redraw.pc = "panicked"
       => /\ ~InSeq(redraw.log, "request") /\ ~redraw.requested
          /\ ~InSeq(redraw.log, "frames") /\ ~InSeq(redraw.log, "refresh")

\* a second redraw tick, one that took a screenshot, has returned and asked for the next
C25_Witness ==
    /\ redraw.pc = "idle" /\ redraw.requested
    /\ ops >= 2
    /\ InSeq(redraw.log, "screenshot")
    /\ last.op = "refresh"
    /\ redraw.log[Len(redraw.log)] = "request"


\* a pass that found its reduced damage empty: nothing drawn is reported, the renderer is
\* not invoked, last_state and every drawn flag are as before the call
EmptyPassLeaves(o) ==
    /\ last'.result = "Ok(false)"
    /\ ~last'.rendered /\ ~last'.cleared /\ last'.painted = <<>>
    /\ Get(ostate'[o]).last_state = OState(o).last_state
    /\ wstate' = wstate /\ ldrawn' = ldrawn

\* C26 (as claimed): whenever the reduced damage set of a render_output call is empty,
\* the call is a no-op: it returns drew=false, does not invoke the renderer, and leaves
\* the output's last_state, its damage history (content and length) and every drawn flag
\* exactly as they were before the call.
C26_EmptyDamageNoOp ==
    [][(last'.op = "render_output" /\ IsRender(last') /\ last'.damage = <<>>)
       => \A o \in {last'.out} \cap Outputs :
             /\ EmptyPassLeaves(o)
             /\ Get(ostate'[o]).old_damage = OState(o).old_damage]_vars

\* C26 (amended): the same, but the damage history is cut to its age most recent entries
\* when age > 0 and it holds at least age entries, and is as before the call otherwise.
C26_EmptyDamageCutsHistory ==
    [][(last'.op = "render_output" /\ IsRender(last') /\ last'.damage = <<>>)
       => \A o \in {last'.out} \cap Outputs :
             /\ EmptyPassLeaves(o)
             /\ Get(ostate'[o]).old_damage =
                   IF last'.age > 0 /\ Len(OState(o).old_damage) >= last'.age
                   THEN SubSeq(OState(o).old_damage, 1, last'.age)
                   ELSE OState(o).old_damage]_vars

\* a pass with age 1 found nothing to draw while last_state and the history hold entries
\* and a window has its drawn flag set
C26_Witness ==
    /\ last.op = "render_output" /\ IsRender(last)
    /\ last.damage = <<>> /\ last.result = "Ok(false)" /\ last.age = 1
    /\ OState(last.out).last_state # <<>>
    /\ Len(OState(last.out).old_damage) = 1
    /\ \E w \in SeqToSet(windows) : Drawn(wstate, ldrawn, Xdg(w))


\* the threads that hold a Space: from the return of Space::new until Drop has removed
\* the id
LiveThreads == {t \in Threads : IsSome(space_ids.th[t].space)}
\* no two live Spaces have the same id, and the id of every live Space is in SPACE_IDS
UniqueLive ==
    /\ \A t, u \in LiveThreads :
          Get(space_ids.th[t].space) = Get(space_ids.th[u].space) => t = u
    /\ \A t \in LiveThreads : Get(space_ids.th[t].space) \in space_ids.ids

\* C27: at every moment no two live Spaces have the same id, for every interleaving of
\* concurrent Space creations and drops, including when the counter wraps around and
\* reaches ids that are still live; dropping a Space removes its id from the live set,
\* after which the id can be issued again.
C27_UniqueSpaceIds ==
    [][/\ UniqueLive'
       /\ \A t \in Threads :
             /\ (At(t, "drop") /\ At(t, "idle")')
                => /\ space_ids.th[t].id \notin space_ids'.ids
                   /\ space_ids'.th[t].space = None
             /\ (At(t, "test") /\ At(t, "live")')
                => /\ space_ids.th[t].id \notin space_ids.ids
                   /\ space_ids'.th[t].space = Some(space_ids.th[t].id)]_vars

\* the counter has wrapped around, two Spaces are live, one of them with an id that an
\* earlier, dropped Space had, and the creation that is under way has just fetched an id
\* that is still live
C27_Witness ==
    /\ space_ids.wrapped
    /\ \E t, u, v \in Threads :
          /\ t # u /\ {t, u} \subseteq LiveThreads
          /\ space_ids.issued[Get(space_ids.th[t].space)] = 2
          /\ At(v, "test") /\ space_ids.th[v].id \in space_ids.ids

====
